---- MODULE Spec2Model ----
(***************************************************************************)
(* A model of the array-backed Merkle tree of go-merkletree (v2): tree     *)
(* construction, single proofs, pollards and multiproofs, and of the       *)
(* pointer tree of its first version.                                      *)
(*                                                                         *)
(* Byte strings are sequences of naturals.  The hash provider is modelled  *)
(* as an injective function on byte strings (a collision-free hash) whose  *)
(* digests are self-delimiting, so that the concatenation of two digests   *)
(* determines both, as it does for fixed-length digests.                   *)
(***************************************************************************)
EXTENDS Integers, Sequences, FiniteSets, TLC

\* Bounds of the model.
MaxVal == 2      \* number of distinct byte strings a caller may use as values
MaxLen == 3      \* longest value list handed to NewTree
MaxReq == 2      \* longest request handed to GenerateMultiProof
MaxHeight == 1   \* largest pollard height requested

\* The byte strings callers use as values: one byte each.
ValueSet == {<<v>> : v \in 1..MaxVal}

\* The value lists of length 0..MaxLen.
ValueLists == UNION {[1..n -> ValueSet] : n \in 0..MaxLen}

\* The multiproof requests of length 0..MaxReq.
Requests == UNION {[1..n -> ValueSet] : n \in 0..MaxReq}

\* A nil byte slice.
Nil == <<>>

----------------------------------------------------------------------------
(* The hash provider and byte-string helpers.                              *)

\* Concatenation of a list of byte strings (Hash writes its parts in order).
RECURSIVE Concat(_)
Concat(parts) ==
    IF parts = <<>> THEN <<>> ELSE Head(parts) \o Concat(Tail(parts))

\* Hash as it would be if only the first part were written to the hasher.
HashFirstPartOnly(parts) ==
    LET s == Head(parts) IN <<Len(s) + 1>> \o s

\* HashType.Hash(data ...[]byte): the digest of the concatenated parts.
\* Injective on byte strings; the first entry gives the digest's extent.
Hash(parts) ==
    LET s == Concat(parts) IN <<Len(s) + 1>> \o s

\* make([]byte, hash.HashLength()): the all-zero digest.
ZeroHash == <<0>>

\* A digest that no tree holds (the 0x0bad... pattern of the tests).
BadHash == <<1>>

\* binary.BigEndian.PutUint32(indexSalt, uint32(i)): four bytes, big-endian.
BE32(i) ==
    << (i \div 16777216) % 256, (i \div 65536) % 256, (i \div 256) % 256, i % 256 >>

\* The leading byte of a digest's image under the provider: digests are
\* compared as byte strings, in an order unrelated to what was hashed.
RECURSIVE Mix(_)
Mix(d) ==
    IF d = <<>> THEN 0
    ELSE (((Len(d) % 3) + 1) * Head(d) + Mix(Tail(d))) % 7

\* Lexicographic "less than" on byte strings.
RECURSIVE LexLess(_, _)
LexLess(a, b) ==
    IF b = <<>> THEN FALSE
    ELSE IF a = <<>> THEN TRUE
    ELSE IF Head(a) # Head(b) THEN Head(a) < Head(b)
    ELSE LexLess(Tail(a), Tail(b))

\* bytes.Compare on two digests: -1, 0 or 1.  The zero digest is the least.
Compare(a, b) ==
    IF a = b THEN 0
    ELSE IF Mix(a) # Mix(b) THEN (IF Mix(a) < Mix(b) THEN 0 - 1 ELSE 1)
    ELSE IF LexLess(a, b) THEN 0 - 1 ELSE 1

\* i ^ 1 on unsigned integers.
Xor1(i) == IF i % 2 = 0 THEN i + 1 ELSE i - 1

\* 2^k.
RECURSIVE Exp2(_)
Exp2(k) == IF k <= 0 THEN 1 ELSE 2 * Exp2(k - 1)

\* int(math.Ceil(math.Log2(float64(n)))) for n >= 1.
CeilLog2(n) == CHOOSE k \in 0..n : Exp2(k) >= n /\ \A j \in 0..(k - 1) : Exp2(j) < n

----------------------------------------------------------------------------
(* Tree construction.                                                      *)

\* hashSorter with sort.Sort: insert one (data, hash) pair into a list
\* already in non-decreasing hash order.
RECURSIVE sortInsert(_, _)
sortInsert(pair, sorted) ==
    IF sorted = <<>> THEN <<pair>>
    ELSE IF Compare(pair.hash, Head(sorted).hash) = 0 - 1
         THEN <<pair>> \o sorted
         ELSE <<Head(sorted)>> \o sortInsert(pair, Tail(sorted))

\* sort.Sort(sorter): the pairs in non-decreasing order of hash.
RECURSIVE hashSorter(_)
hashSorter(pairs) ==
    IF pairs = <<>> THEN <<>> ELSE sortInsert(Head(pairs), hashSorter(Tail(pairs)))

\* createLeaves: hash every value (salted with its position when salt is
\* set), then, when sorted is set, sort data and leaves together by leaf.
createLeaves(data, salt, sorted) ==
    LET pairs == [i \in 1..Len(data) |->
                    [data |-> data[i],
                     hash |-> IF salt THEN Hash(<<data[i], BE32(i - 1)>>)
                                      ELSE Hash(<<data[i]>>)]]
        out == IF sorted THEN hashSorter(pairs) ELSE pairs
    IN [data |-> [i \in 1..Len(data) |-> out[i].data],
        dest |-> [i \in 1..Len(data) |-> out[i].hash]]

\* One iteration of the loop of createBranches, and the iterations below it.
RECURSIVE branchLoop(_, _, _)
branchLoop(nodes, leafIndex, sorted) ==
    IF leafIndex <= 0 THEN nodes
    ELSE LET left == nodes[leafIndex * 2]
             right == nodes[leafIndex * 2 + 1]
             h == IF sorted /\ Compare(left, right) = 1
                  THEN Hash(<<right, left>>)
                  ELSE Hash(<<left, right>>)
         IN branchLoop([nodes EXCEPT ![leafIndex] = h], leafIndex - 1, sorted)

\* createBranches as it would be if the sorted flag were ignored.
createBranchesUnsorted(nodes, leafOffset, sorted) ==
    branchLoop(nodes, leafOffset - 1, FALSE)

\* createBranches(nodes, hash, leafOffset, sorted).
createBranches(nodes, leafOffset, sorted) ==
    branchLoop(nodes, leafOffset - 1, sorted)

\* parseAndCheckTreeParameters as it would be without the check of the data.
parseTreeParametersNoDataCheck(data, hashSet, values, hashes, indices) ==
    IF ~hashSet THEN "no hash type specified"
    ELSE IF values # 0 THEN "merkle tree does not use the values parameter"
    ELSE IF hashes # 0 THEN "merkle tree does not use the hashes parameter"
    ELSE IF indices # 0 THEN "merkle tree does not use the indices parameter"
    ELSE ""

\* parseAndCheckTreeParameters: the error, or "" when the parameters pass.
\* values, hashes and indices are the multiproof-only parameters.
parseAndCheckTreeParameters(data, hashSet, values, hashes, indices) ==
    IF ~hashSet THEN "no hash type specified"
    ELSE IF Len(data) = 0 THEN "tree must have at least 1 piece of data"
    ELSE IF values # 0 THEN "merkle tree does not use the values parameter"
    ELSE IF hashes # 0 THEN "merkle tree does not use the hashes parameter"
    ELSE IF indices # 0 THEN "merkle tree does not use the indices parameter"
    ELSE ""

\* buildTree as it would be if the space after the leaves were filled with
\* copies of the last leaf instead of zero digests.
buildTreeRepeatLast(data, salt, sorted) ==
    LET branchesLen == Exp2(CeilLog2(Len(data)))
        leaves == createLeaves(data, salt, sorted)
        nodes0 == [i \in 0..(2 * branchesLen - 1) |->
                     IF i < branchesLen THEN Nil
                     ELSE IF i < branchesLen + Len(data)
                          THEN leaves.dest[i - branchesLen + 1]
                          ELSE leaves.dest[Len(data)]]
    IN [Salt |-> salt, Sorted |-> sorted,
        Data |-> leaves.data,
        Nodes |-> createBranches(nodes0, branchesLen, sorted)]

\* The tree NewTree builds from parameters that passed the check.
buildTree(data, salt, sorted) ==
    LET branchesLen == Exp2(CeilLog2(Len(data)))
        leaves == createLeaves(data, salt, sorted)
        nodes0 == [i \in 0..(2 * branchesLen - 1) |->
                     IF i < branchesLen THEN Nil
                     ELSE IF i < branchesLen + Len(data)
                          THEN leaves.dest[i - branchesLen + 1]
                          ELSE ZeroHash]
    IN [Salt |-> salt, Sorted |-> sorted,
        Data |-> leaves.data,
        Nodes |-> createBranches(nodes0, branchesLen, sorted)]

\* No tree (a nil *MerkleTree).
NoTree == [Salt |-> FALSE, Sorted |-> FALSE, Data |-> <<>>, Nodes |-> <<>>]

\* Root(): t.Nodes[1].
Root(t) == t.Nodes[1]

\* The padded leaf count of a tree: len(t.Nodes)/2.
LeafCount(t) == Cardinality(DOMAIN t.Nodes) \div 2

----------------------------------------------------------------------------
(* Single proofs.                                                          *)

\* A nil *Proof.
NoProof == [Hashes |-> <<>>, Index |-> 0 - 1]

\* indexOf as it would be if the scan started at the second element.
indexOfSkipFirst(t, input) ==
    IF \E i \in 2..Len(t.Data) : t.Data[i] = input
    THEN (CHOOSE i \in 2..Len(t.Data) :
              /\ t.Data[i] = input
              /\ \A j \in 2..(i - 1) : t.Data[j] # input) - 1
    ELSE 0 - 1

\* indexOf: the position (from 0) of the first element of t.Data equal to
\* input, or -1 for the error "data not found".
indexOf(t, input) ==
    IF \E i \in 1..Len(t.Data) : t.Data[i] = input
    THEN (CHOOSE i \in 1..Len(t.Data) :
              /\ t.Data[i] = input
              /\ \A j \in 1..(i - 1) : t.Data[j] # input) - 1
    ELSE 0 - 1

\* The loop of GenerateProof: the siblings met from node i up to minI.
RECURSIVE proofLoop(_, _, _)
proofLoop(t, i, minI) ==
    IF i > minI THEN <<t.Nodes[Xor1(i)]>> \o proofLoop(t, i \div 2, minI)
    ELSE <<>>

\* GenerateProof as it would be if the walk always went up to the root.
GenerateProofToRoot(t, data, height) ==
    LET index == indexOf(t, data)
        proofLen == CeilLog2(Len(t.Data)) - height
    IN IF index < 0 THEN [err |-> "data not found", proof |-> NoProof]
       ELSE IF proofLen < 0 THEN [err |-> "panic", proof |-> NoProof]
       ELSE [err |-> "",
             proof |-> [Hashes |-> proofLoop(t, index + LeafCount(t), 1),
                        Index |-> index]]

\* GenerateProof(data, height): the error and the proof.  A height above
\* the tree's depth asks make for a negative length, which panics.
GenerateProof(t, data, height) ==
    LET index == indexOf(t, data)
        proofLen == CeilLog2(Len(t.Data)) - height
        minI == Exp2(height + 1) - 1
    IN IF index < 0 THEN [err |-> "data not found", proof |-> NoProof]
       ELSE IF proofLen < 0 THEN [err |-> "panic", proof |-> NoProof]
       ELSE [err |-> "",
             proof |-> [Hashes |-> proofLoop(t, index + LeafCount(t), minI),
                        Index |-> index]]

\* The loop of generateProofHash over the hashes left, at tree index index.
RECURSIVE proofHashLoop(_, _, _)
proofHashLoop(proofHash, hashes, index) ==
    IF hashes = <<>> THEN proofHash
    ELSE proofHashLoop(IF index % 2 = 0
                       THEN Hash(<<proofHash, Head(hashes)>>)
                       ELSE Hash(<<Head(hashes), proofHash>>),
                       Tail(hashes), index \div 2)

\* generateProofHash(data, salt, proof, hashType).
generateProofHash(data, salt, proof) ==
    LET leaf == IF salt THEN Hash(<<data, BE32(proof.Index)>>)
                        ELSE Hash(<<data>>)
    IN proofHashLoop(leaf, proof.Hashes,
                     proof.Index + Exp2(Len(proof.Hashes)))

\* VerifyProofUsing as it would be with the comparison negated.
VerifyProofUsingNegated(data, salt, proof, pollard) ==
    LET proofHash == generateProofHash(data, salt, proof)
    IN \E i \in 0..(Len(pollard) \div 2) :
           pollard[Len(pollard) - i] # proofHash

\* VerifyProofUsing(data, salt, proof, pollard, hashType): whether one of
\* the last len(pollard)/2+1 entries of the pollard is the proof's hash.
VerifyProofUsing(data, salt, proof, pollard) ==
    LET proofHash == generateProofHash(data, salt, proof)
    IN \E i \in 0..(Len(pollard) \div 2) :
           pollard[Len(pollard) - i] = proofHash

\* Pollard as it would be if the slice ended one entry early.
PollardOneShort(t, height) ==
    [i \in 1..(Exp2(height + 1) - 2) |-> t.Nodes[i]]

\* Pollard(height): t.Nodes[1:2^(height+1)].
Pollard(t, height) ==
    [i \in 1..(Exp2(height + 1) - 1) |-> t.Nodes[i]]

\* VerifyPollardUsing(pollard, hashType): a single hash is accepted as it
\* is; otherwise every entry that has two children in the pollard must be
\* the hash of those children, in their order.
VerifyPollardUsing(p) ==
    IF Len(p) = 1 THEN TRUE
    ELSE \A i \in 0..(Len(p) \div 2 - 1) :
             p[i + 1] = Hash(<<p[i * 2 + 2], p[i * 2 + 3]>>)

----------------------------------------------------------------------------
(* Multiproofs.                                                            *)

\* A nil *MultiProof.
NoMultiProof == [Values |-> 0, Hashes |-> <<>>, Indices |-> <<>>]

\* newMultiProof as it would be if it put the indices in ascending order.
newMultiProofAscending(hashes, indices, values) ==
    [Values |-> values, Hashes |-> hashes,
     Indices |-> SortSeq(indices, LAMBDA a, b : a < b)]

\* newMultiProof(hashes, indices, values): the MultiProof structure.
newMultiProof(hashes, indices, values) ==
    [Values |-> values, Hashes |-> hashes, Indices |-> indices]

\* parseAndCheckMultiProofParameters: the error, or "" when they pass.
parseAndCheckMultiProofParameters(hashSet, values, indices, data) ==
    IF ~hashSet THEN "no hash type specified"
    ELSE IF values = 0 THEN "no values specified"
    ELSE IF Len(indices) = 0 THEN "no indices specified"
    ELSE IF Len(data) # 0 THEN "proof does not use the data parameter"
    ELSE ""

\* A map with key k set to v (m[k] = v in Go).
MapSet(m, k, v) == [x \in (DOMAIN m) \cup {k} |-> IF x = k THEN v ELSE m[x]]

\* A map without key k (delete(m, k) in Go).
MapDelete(m, k) == [x \in (DOMAIN m) \ {k} |-> m[x]]

\* Step 1 as it would be if a value without a proof were skipped.
RECURSIVE multiStep1SkipMissing(_, _, _)
multiStep1SkipMissing(t, data, n) ==
    IF n > Len(data) THEN [err |-> "", proofs |-> <<>>]
    ELSE LET r == GenerateProof(t, data[n], 0)
             rest == multiStep1SkipMissing(t, data, n + 1)
         IN IF r.err # "" THEN rest
            ELSE [err |-> "", proofs |-> <<r.proof>> \o rest.proofs]

\* Step 1 of GenerateMultiProof: the single proofs of data[n..], or an
\* error as soon as one of them fails.
RECURSIVE multiStep1(_, _, _)
multiStep1(t, data, n) ==
    IF n > Len(data) THEN [err |-> "", proofs |-> <<>>]
    ELSE LET r == GenerateProof(t, data[n], 0)
         IN IF r.err # "" THEN [err |-> r.err, proofs |-> <<>>]
            ELSE LET rest == multiStep1(t, data, n + 1)
                 IN IF rest.err # "" THEN rest
                    ELSE [err |-> "", proofs |-> <<r.proof>> \o rest.proofs]

\* Step 2, inner loop: walk from node j to the root, storing the proof's
\* hashes under their siblings' indices and marking the path calculated.
RECURSIVE combineWalk(_, _, _, _)
combineWalk(acc, hashes, j, hashNum) ==
    IF j > 1
    THEN combineWalk([proofHashes |-> MapSet(acc.proofHashes, Xor1(j), hashes[hashNum + 1]),
                      calculated |-> acc.calculated \cup {j}],
                     hashes, j \div 2, hashNum + 1)
    ELSE acc

\* Step 2, outer loop over the proofs n.. of the request.
RECURSIVE combineLoop(_, _, _, _)
combineLoop(acc, proofs, n, leafOffset) ==
    IF n > Len(proofs) THEN acc
    ELSE combineLoop(combineWalk(acc, proofs[n].Hashes, proofs[n].Index + leafOffset, 0),
                     proofs, n + 1, leafOffset)

\* The inner loop of step 3 as it would be if it looked at the leaf's own
\* sibling only.
pruneWalkLeafOnly(proofHashes, calculated, j) ==
    IF j > 1 /\ Xor1(j) \in calculated
    THEN MapDelete(proofHashes, Xor1(j))
    ELSE proofHashes

\* Step 3, inner loop: on the way from node j to the root, delete every
\* sibling hash that can be calculated.
RECURSIVE pruneWalk(_, _, _)
pruneWalk(proofHashes, calculated, j) ==
    IF j > 1
    THEN pruneWalk(IF Xor1(j) \in calculated
                   THEN MapDelete(proofHashes, Xor1(j))
                   ELSE proofHashes,
                   calculated, j \div 2)
    ELSE proofHashes

\* Step 3 as it would be if nothing were deleted.
pruneLoopNone(proofHashes, calculated, proofs, n, leafOffset) == proofHashes

\* Step 3, outer loop over the proofs n.. of the request.
RECURSIVE pruneLoop(_, _, _, _, _)
pruneLoop(proofHashes, calculated, proofs, n, leafOffset) ==
    IF n > Len(proofs) THEN proofHashes
    ELSE pruneLoop(pruneWalk(proofHashes, calculated, proofs[n].Index + leafOffset),
                   calculated, proofs, n + 1, leafOffset)

\* GenerateMultiProof as it would be without step 3: every hash of every
\* single proof is kept.
GenerateMultiProofUnpruned(t, data) ==
    LET step1 == multiStep1(t, data, 1)
        leafOffset == LeafCount(t)
        indices == [n \in 1..Len(step1.proofs) |-> step1.proofs[n].Index]
        step2 == combineLoop([proofHashes |-> <<>>, calculated |-> {}],
                             step1.proofs, 1, leafOffset)
        perr == parseAndCheckMultiProofParameters(TRUE, leafOffset, indices, <<>>)
    IN IF step1.err # "" THEN [err |-> step1.err, proof |-> NoMultiProof]
       ELSE IF perr # "" THEN [err |-> perr, proof |-> NoMultiProof]
       ELSE [err |-> "", proof |-> newMultiProof(step2.proofHashes, indices, leafOffset)]

\* GenerateMultiProof(data): the error and the multiproof.
GenerateMultiProof(t, data) ==
    LET step1 == multiStep1(t, data, 1)
        leafOffset == LeafCount(t)
        indices == [n \in 1..Len(step1.proofs) |-> step1.proofs[n].Index]
        step2 == combineLoop([proofHashes |-> <<>>, calculated |-> {}],
                             step1.proofs, 1, leafOffset)
        proofHashes == pruneLoop(step2.proofHashes, step2.calculated,
                                 step1.proofs, 1, leafOffset)
        perr == parseAndCheckMultiProofParameters(TRUE, leafOffset, indices, <<>>)
    IN IF step1.err # "" THEN [err |-> step1.err, proof |-> NoMultiProof]
       ELSE IF perr # "" THEN [err |-> perr, proof |-> NoMultiProof]
       ELSE [err |-> "", proof |-> newMultiProof(proofHashes, indices, leafOffset)]

\* Step 1 of VerifyMultiProofUsing: store the leaf hash of data[n..] under
\* the leaf's node index.  Reading data past its end panics.
RECURSIVE verifyStep1(_, _, _, _, _)
verifyStep1(hashes, proof, data, salt, n) ==
    IF n > Len(proof.Indices) THEN [err |-> "", hashes |-> hashes]
    ELSE IF n > Len(data) THEN [err |-> "panic", hashes |-> hashes]
    ELSE LET index == proof.Indices[n]
             proofHash == IF salt THEN Hash(<<data[n], BE32(index)>>)
                                  ELSE Hash(<<data[n]>>)
         IN verifyStep1(MapSet(hashes, index + proof.Values, proofHash),
                        proof, data, salt, n + 1)

\* Step 2 of VerifyMultiProofUsing: from node i down to node 1, calculate
\* every missing hash whose two children are present.
RECURSIVE verifyStep2(_, _)
verifyStep2(hashes, i) ==
    IF i <= 0 THEN hashes
    ELSE verifyStep2(IF i \notin DOMAIN hashes
                        /\ (i * 2) \in DOMAIN hashes
                        /\ (i * 2 + 1) \in DOMAIN hashes
                     THEN MapSet(hashes, i, Hash(<<hashes[i * 2], hashes[i * 2 + 1]>>))
                     ELSE hashes,
                     i - 1)

\* A uint64 is held as four limbs of sixteen bits, the most significant
\* first.
Limb == 65536

\* The uint64 of a number below 2^16.
Uint64(n) == <<0, 0, 0, n>>

\* x - 1 in unsigned arithmetic of the width of x: 0 - 1 wraps to the
\* largest value.
RECURSIVE uint64Dec(_)
uint64Dec(x) ==
    IF x = <<>> THEN <<>>
    ELSE IF x[Len(x)] > 0 THEN [x EXCEPT ![Len(x)] = @ - 1]
    ELSE Append(uint64Dec(SubSeq(x, 1, Len(x) - 1)), Limb - 1)

\* The first value of the loop variable of step 2, i := proof.Values - 1,
\* which is also the number of iterations, the loop running while i > 0.
passStart(values) == uint64Dec(Uint64(values))

\* Whether a loop of that many iterations is one a call comes back from:
\* the count is below 2^16.
passEnds(start) == start[1] = 0 /\ start[2] = 0 /\ start[3] = 0

\* VerifyMultiProofUsing(data, salt, proof, root, hashType): the result, the
\* error and the proof's hash map as the call leaves it.  A pass of 2^64-1
\* iterations is recorded as a call that does not come back ("hang"), the
\* hash map shown as step 1 left it.
VerifyMultiProofUsing(data, salt, proof, root) ==
    LET step1 == verifyStep1(proof.Hashes, proof, data, salt, 1)
        start == passStart(proof.Values)
        hashes == verifyStep2(step1.hashes, start[4])
        top == IF 1 \in DOMAIN hashes THEN hashes[1] ELSE Nil
    IN IF step1.err # ""
       THEN [proven |-> FALSE, err |-> step1.err, hashes |-> step1.hashes]
       ELSE IF ~passEnds(start)
       THEN [proven |-> FALSE, err |-> "hang", hashes |-> step1.hashes]
       ELSE [proven |-> (top = root), err |-> "", hashes |-> hashes]

----------------------------------------------------------------------------
(* JSON export and import.                                                 *)

\* The names UnmarshalJSON recognises as hash types.
KnownHashNames == {"sha512", "sha256", "blake2b", "keccak256"}

\* The names a hash provider may return from HashName(): the known ones and
\* the name of a provider of the caller's own.
HashNames == KnownHashNames \cup {"custom"}

\* MarshalJSON: the provider's name and the exported fields of the tree.
MarshalJSON(t, hashName) ==
    [HashType |-> hashName, Salt |-> t.Salt, Sorted |-> t.Sorted,
     Data |-> t.Data, Nodes |-> t.Nodes]

\* UnmarshalJSON on receiver t: json.Unmarshal decodes into a structure
\* that embeds t itself, so the fields of t are written first; the hash
\* type is looked up afterwards.
UnmarshalJSON(t, exp) ==
    [err |-> IF exp.HashType \in KnownHashNames THEN "" ELSE "cannot parse hash type",
     tree |-> [Salt |-> exp.Salt, Sorted |-> exp.Sorted,
               Data |-> exp.Data, Nodes |-> exp.Nodes]]

----------------------------------------------------------------------------
(* The pointer tree of the first version: nodes linked by parent, left and *)
(* right pointers.  A node is addressed by its place in the heap, 0 being  *)
(* the nil pointer.                                                        *)

MaxReplace == 2   \* number of successful Replace calls on one pointer tree

NoNode == 0

NoPointerTree == [nodes |-> <<>>, root |-> NoNode]

\* n.IsLeaf(): the node has no children.
IsLeaf(n) == n.left = NoNode /\ n.right = NoNode

\* n.IsRoot(): the node has no parent.
IsRoot(n) == n.parent = NoNode

\* The leaf node NewUsing makes of one piece of data.
newLeaf(data) ==
    [parent |-> NoNode, left |-> NoNode, right |-> NoNode,
     hash |-> Hash(<<data>>), data |-> data]

\* The loop of buildParents: the nodes at level[i..] are paired, the last
\* one with itself when their number is odd; every parent is a new node of
\* the heap and its children are given their parent pointer.
RECURSIVE buildParentsLoop(_, _, _, _)
buildParentsLoop(heap, level, i, parentNodes) ==
    IF i > Len(level) THEN [heap |-> heap, nodes |-> parentNodes]
    ELSE LET leftNode == level[i]
             rightNode == IF Len(level) = i THEN level[i] ELSE level[i + 1]
             id == Len(heap) + 1
             parentNode == [parent |-> NoNode, left |-> leftNode, right |-> rightNode,
                            hash |-> Hash(<<heap[leftNode].hash, heap[rightNode].hash>>),
                            data |-> Nil]
             linked == [[Append(heap, parentNode) EXCEPT ![leftNode].parent = id]
                           EXCEPT ![rightNode].parent = id]
         IN buildParentsLoop(linked, level, i + 2, Append(parentNodes, id))

\* buildParents(nodes, hash): the parent nodes of a list of nodes.
buildParents(heap, level) == buildParentsLoop(heap, level, 1, <<>>)

\* Step 2 of NewUsing: build parents until one node is left, at least once.
RECURSIVE buildLevels(_, _)
buildLevels(heap, level) ==
    LET r == buildParents(heap, level)
    IN IF Len(r.nodes) = 1 THEN [nodes |-> r.heap, root |-> r.nodes[1]]
       ELSE buildLevels(r.heap, r.nodes)

\* NewUsing(nodeData, hash).
NewUsing(nodeData) ==
    IF Len(nodeData) = 0
    THEN [err |-> "tree must have at least 1 piece of data", tree |-> NoPointerTree]
    ELSE [err |-> "",
          tree |-> buildLevels([i \in 1..Len(nodeData) |-> newLeaf(nodeData[i])],
                               [i \in 1..Len(nodeData) |-> i])]

\* t.RootHash().
RootHash(t) == t.nodes[t.root].hash

\* findMatchingLeaf: depth first, the left child before the right one, for
\* a leaf whose data hashes to hash; NoNode when there is none.
RECURSIVE findMatchingLeaf(_, _, _)
findMatchingLeaf(heap, node, hash) ==
    IF IsLeaf(heap[node])
    THEN IF hash = Hash(<<heap[node].data>>) THEN node ELSE NoNode
    ELSE LET leftNode == findMatchingLeaf(heap, heap[node].left, hash)
         IN IF leftNode # NoNode THEN leftNode
            ELSE findMatchingLeaf(heap, heap[node].right, hash)

\* t.findLeafNode(data).
findLeafNode(t, data) == findMatchingLeaf(t.nodes, t.root, Hash(<<data>>))

\* regenerateHashes as it would be if it rehashed the given node only.
regenerateHashesNodeOnly(heap, node) ==
    IF IsLeaf(heap[node])
    THEN [heap EXCEPT ![node].hash = Hash(<<heap[node].data>>)]
    ELSE heap

\* t.regenerateHashes(node): rehash the node and every node above it.
RECURSIVE regenerateHashes(_, _)
regenerateHashes(heap, node) ==
    IF IsLeaf(heap[node])
    THEN regenerateHashes([heap EXCEPT ![node].hash = Hash(<<heap[node].data>>)],
                          heap[node].parent)
    ELSE LET rehashed == [heap EXCEPT ![node].hash =
                             Hash(<<heap[heap[node].left].hash, heap[heap[node].right].hash>>)]
         IN IF ~IsRoot(heap[node]) THEN regenerateHashes(rehashed, heap[node].parent)
            ELSE rehashed

\* t.Replace(old, new).
Replace(t, old, new) ==
    LET node == findLeafNode(t, old)
    IN IF node = NoNode
       THEN [err |-> "merkle tree does not contain this data", tree |-> t]
       ELSE [err |-> "",
             tree |-> [t EXCEPT !.nodes =
                          regenerateHashes([t.nodes EXCEPT ![node].data = new], node)]]

\* The data of the leaves of t, in the order NewUsing was given them.
leafData(t) ==
    LET leaves == {i \in 1..Len(t.nodes) : IsLeaf(t.nodes[i])}
    IN [i \in 1..Cardinality(leaves) |-> t.nodes[i].data]

----------------------------------------------------------------------------
(* The state: one tree and the objects a caller obtained from it.          *)

VARIABLES
    tree,        \* the tree NewTree returned, or NoTree
    proof,       \* the Proof the caller holds, or NoProof
    proofArgs,   \* what that Proof was generated for, and where it was altered
    pollard,     \* the pollard the caller holds, <<>> when none
    multiProof,  \* the MultiProof the caller holds, or NoMultiProof
    multiArgs,   \* what that MultiProof was generated for, and how it was used
    call,        \* the operation called last, with its arguments
    ret,         \* what that operation returned
    tree2,       \* the tree a second NewTree on the caller's list returned
    exported,    \* the JSON export of the tree the caller holds, or NoExport
    imported,    \* the tree object that receives an import
    overwritten, \* the nodes whose bytes a caller overwrote in place
    ptree,       \* the pointer tree NewUsing returned, or NoPointerTree
    history      \* the successful Replace calls on it and what each left

vars == <<tree, proof, proofArgs, pollard, multiProof, multiArgs, call, ret,
          tree2, exported, imported, overwritten, ptree, history>>

\* The record of a call.
Call(op, data, salt, sorted, height, opt) ==
    [op |-> op, data |-> data, salt |-> salt, sorted |-> sorted,
     height |-> height, opt |-> opt]

\* The record of a return: an error ("" for none) and a boolean result.
Ret(err, proven) == [err |-> err, proven |-> proven]

NoProofArgs == [data |-> Nil, height |-> 0, altered |-> {}]

NoMultiArgs == [data |-> <<>>, altered |-> {}, verified |-> 0]

\* The construction options besides data, salt and sorted: none, a nil hash
\* type, or one of the parameters only a multiproof uses.
Options == {"none", "nilhash", "values", "hashes", "indices"}

\* The digests put in place of a proof's hash.
TamperSet == {BadHash, ZeroHash}

\* No export held.
NoExport == [HashType |-> "", Salt |-> FALSE, Sorted |-> FALSE,
             Data |-> <<>>, Nodes |-> <<>>]

\* Nothing replaced yet: log holds the (old, new) pairs of the successful
\* Replace calls, data and roots the leaf data and the root hash after
\* construction and after each of them.
NoHistory == [log |-> <<>>, data |-> <<>>, roots |-> <<>>]

Init ==
    /\ tree = NoTree
    /\ proof = NoProof
    /\ proofArgs = NoProofArgs
    /\ pollard = <<>>
    /\ multiProof = NoMultiProof
    /\ multiArgs = NoMultiArgs
    /\ call = Call("none", <<>>, FALSE, FALSE, 0, "none")
    /\ ret = Ret("", FALSE)
    /\ tree2 = NoTree
    /\ exported = NoExport
    /\ imported = NoTree
    /\ overwritten = {}
    /\ ptree = NoPointerTree
    /\ history = NoHistory

\* A list with its last value repeated up to length n.
repeatLast(data, n) ==
    [i \in 1..n |-> IF i <= Len(data) THEN data[i] ELSE data[Len(data)]]

\* NewTree as it would be if the list were filled up to a power of two
\* with copies of its last value before the leaves are made.
NewTreeRepeatLast(data, salt, sorted, opt) ==
    IF Len(data) = 0 \/ opt # "none"
    THEN [err |-> "problem with parameters", tree |-> NoTree]
    ELSE [err |-> "",
          tree |-> buildTree(repeatLast(data, Exp2(CeilLog2(Len(data)))), salt, sorted)]

\* NewTree(WithData(data), WithSalt(salt), WithSorted(sorted), opt): the
\* error of the parameter check, or the tree.
NewTree(data, salt, sorted, opt) ==
    LET perr == parseAndCheckTreeParameters(data, opt # "nilhash",
                    IF opt = "values" THEN 1 ELSE 0,
                    IF opt = "hashes" THEN 1 ELSE 0,
                    IF opt = "indices" THEN 1 ELSE 0)
    IN IF perr # "" THEN [err |-> perr, tree |-> NoTree]
       ELSE [err |-> "", tree |-> buildTree(data, salt, sorted)]

\* The caller's first call builds its tree.
NewTreeCall ==
    /\ call.op = "none"
    /\ \E data \in ValueLists, salt \in BOOLEAN, sorted \in BOOLEAN, opt \in Options :
         LET r == NewTree(data, salt, sorted, opt)
         IN /\ tree' = r.tree
            /\ call' = Call("NewTree", data, salt, sorted, 0, opt)
            /\ ret' = Ret(r.err, FALSE)
    /\ UNCHANGED <<ptree, history, proof, proofArgs, pollard, multiProof, multiArgs, tree2, exported, imported, overwritten>>

\* A second NewTree right after the first, from the list the caller passed
\* to the first ("slice") or from a copy of it made before the first call
\* ("copy").  WithData stores the caller's slice itself, createLeaves sorts
\* it in place and the tree keeps it as Data: the caller's slice and the
\* Data of every tree built from it are one array.
NewTreeAgainCall ==
    /\ tree # NoTree
    /\ tree2 = NoTree
    /\ call.op = "NewTree"
    /\ \E salt \in BOOLEAN, sorted \in BOOLEAN, source \in {"slice", "copy"} :
         LET data == IF source = "slice" THEN tree.Data ELSE call.data
             r == NewTree(data, salt, sorted, "none")
         IN /\ tree2' = r.tree
            /\ tree' = IF source = "slice" THEN [tree EXCEPT !.Data = r.tree.Data]
                                             ELSE tree
            /\ call' = Call("NewTreeAgain", data, salt, sorted, 0, source)
            /\ ret' = Ret(r.err, FALSE)
    /\ UNCHANGED <<ptree, history, proof, proofArgs, pollard, multiProof, multiArgs, exported, imported, overwritten>>

\* proof, err := tree.GenerateProof(data, height), while the caller holds
\* no proof.
GenerateProofCall ==
    /\ tree # NoTree
    /\ proof = NoProof
    /\ \E data \in ValueSet, height \in 0..MaxHeight :
         LET r == GenerateProof(tree, data, height)
         IN /\ proof' = r.proof
            /\ proofArgs' = IF r.err = ""
                            THEN [data |-> data, height |-> height, altered |-> {}]
                            ELSE NoProofArgs
            /\ call' = Call("GenerateProof", <<data>>, FALSE, FALSE, height, "none")
            /\ ret' = Ret(r.err, FALSE)
    /\ UNCHANGED <<ptree, history, tree, pollard, multiProof, multiArgs, tree2, exported, imported, overwritten>>

\* pollard := tree.Pollard(height), while the caller holds no pollard;
\* slicing past the node array panics.
PollardCall ==
    /\ tree # NoTree
    /\ pollard = <<>>
    /\ \E height \in 0..MaxHeight :
         LET ok == Exp2(height + 1) <= 2 * LeafCount(tree)
         IN /\ pollard' = IF ok THEN Pollard(tree, height) ELSE <<>>
            /\ call' = Call("Pollard", <<>>, FALSE, FALSE, height, "none")
            /\ ret' = Ret(IF ok THEN "" ELSE "panic", FALSE)
    /\ UNCHANGED <<ptree, history, tree, proof, proofArgs, multiProof, multiArgs, tree2, exported, imported, overwritten>>

\* proof.Hashes[k] is replaced by another digest.
TamperProof ==
    /\ proof # NoProof
    /\ proofArgs.altered = {}
    /\ \E k \in 1..Len(proof.Hashes), d \in TamperSet :
         /\ d # proof.Hashes[k]
         /\ proof' = [proof EXCEPT !.Hashes[k] = d]
         /\ proofArgs' = [proofArgs EXCEPT !.altered = {k}]
         /\ call' = Call("TamperProof", <<>>, FALSE, FALSE, k, "none")
         /\ ret' = Ret("", FALSE)
    /\ UNCHANGED <<ptree, history, tree, pollard, multiProof, multiArgs, tree2, exported, imported, overwritten>>

\* The positions a caller puts in the Index field of a Proof: those of a
\* tree of twice the largest leaf count.
ProofIndices == 0..(2 * Exp2(CeilLog2(MaxLen)) - 1)

\* The caller sets the Index field of a generated Proof to another
\* position; index 0 of altered stands for that field, the hashes being
\* numbered from 1.
SetProofIndex ==
    /\ proof # NoProof
    /\ proofArgs.altered = {}
    /\ \E index \in ProofIndices \ {proof.Index} :
         /\ proof' = [proof EXCEPT !.Index = index]
         /\ proofArgs' = [proofArgs EXCEPT !.altered = {0}]
         /\ call' = Call("SetProofIndex", <<>>, FALSE, FALSE, index, "none")
         /\ ret' = Ret("", FALSE)
    /\ UNCHANGED <<ptree, history, tree, pollard, multiProof, multiArgs, tree2, exported, imported, overwritten>>

\* The node whose bytes proof.Hashes[k] shares: GenerateProof stores the
\* slice t.Nodes[i^1] itself, the k-th one on the way up from the leaf.
proofNode(t, p, k) == Xor1((p.Index + LeafCount(t)) \div Exp2(k - 1))

\* The keys of the held multiproof whose hashes still share their bytes
\* with the tree's nodes: those GenerateMultiProof stored, unless replaced.
sharedKeys ==
    IF multiProof = NoMultiProof THEN {}
    ELSE (DOMAIN GenerateMultiProof(tree, multiArgs.data).proof.Hashes)
            \ multiArgs.altered

\* The bytes of node idx are overwritten in place with digest d: the tree
\* and every object whose entry is that same byte slice show the new bytes.
overwriteNode(idx, d) ==
    /\ tree' = [tree EXCEPT !.Nodes[idx] = d]
    /\ proof' = IF proof = NoProof THEN proof
                ELSE [proof EXCEPT !.Hashes =
                        [k \in 1..Len(proof.Hashes) |->
                            IF k \notin proofArgs.altered /\ proofNode(tree, proof, k) = idx
                            THEN d ELSE proof.Hashes[k]]]
    /\ pollard' = [j \in 1..Len(pollard) |-> IF j = idx THEN d ELSE pollard[j]]
    /\ multiProof' = IF multiProof = NoMultiProof THEN multiProof
                     ELSE [multiProof EXCEPT !.Hashes =
                            [k \in DOMAIN multiProof.Hashes |->
                                IF k \in sharedKeys /\ k = idx
                                THEN d ELSE multiProof.Hashes[k]]]
    /\ overwritten' = overwritten \cup {idx}
    /\ UNCHANGED <<ptree, history, proofArgs, multiArgs, tree2, exported, imported>>

\* copy(proof.Hashes[k], d): the bytes of a hash of the held Proof are
\* overwritten in place.
OverwriteProofHash ==
    /\ tree # NoTree
    /\ proof # NoProof
    /\ overwritten = {}
    /\ \E k \in (1..Len(proof.Hashes)) \ proofArgs.altered, d \in TamperSet :
         /\ d # proof.Hashes[k]
         /\ overwriteNode(proofNode(tree, proof, k), d)
         /\ call' = Call("OverwriteProof", <<>>, FALSE, FALSE, k, "none")
         /\ ret' = Ret("", FALSE)

\* copy(pollard[j], d): the bytes of an entry of the held pollard, which
\* is the slice t.Nodes[1:2^(height+1)], are overwritten in place.
OverwritePollardEntry ==
    /\ tree # NoTree
    /\ pollard # <<>>
    /\ overwritten = {}
    /\ \E j \in 1..Len(pollard), d \in TamperSet :
         /\ d # pollard[j]
         /\ overwriteNode(j, d)
         /\ call' = Call("OverwritePollard", <<>>, FALSE, FALSE, j, "none")
         /\ ret' = Ret("", FALSE)

\* copy(multiProof.Hashes[key], d): the bytes of a hash of the held
\* MultiProof are overwritten in place.
OverwriteMultiProofHash ==
    /\ tree # NoTree
    /\ multiProof # NoMultiProof
    /\ overwritten = {}
    /\ \E key \in sharedKeys, d \in TamperSet :
         /\ d # multiProof.Hashes[key]
         /\ overwriteNode(key, d)
         /\ call' = Call("OverwriteMultiProof", <<>>, FALSE, FALSE, key, "none")
         /\ ret' = Ret("", FALSE)

\* ok := VerifyPollardUsing(pollard, hashType) on the pollard the caller
\* holds.
VerifyPollardCall ==
    /\ pollard # <<>>
    /\ call' = Call("VerifyPollard", <<>>, FALSE, FALSE, 0, "none")
    /\ ret' = Ret("", VerifyPollardUsing(pollard))
    /\ UNCHANGED <<ptree, history, tree, proof, proofArgs, pollard, multiProof, multiArgs,
                   tree2, exported, imported, overwritten>>

\* proven, err := VerifyProofUsing(data, salt, proof, pollard, hashType),
\* with the tree's salt flag and the pollard the caller holds.
VerifyProofCall ==
    /\ tree # NoTree
    /\ proof # NoProof
    /\ pollard # <<>>
    /\ \E data \in ValueSet :
         /\ call' = Call("VerifyProof", <<data>>, tree.Salt, FALSE, 0, "none")
         /\ ret' = Ret("", VerifyProofUsing(data, tree.Salt, proof, pollard))
    /\ UNCHANGED <<ptree, history, tree, proof, proofArgs, pollard, multiProof, multiArgs, tree2, exported, imported, overwritten>>

\* multiProof, err := tree.GenerateMultiProof(data), while the caller holds
\* no multiproof.
GenerateMultiProofCall ==
    /\ tree # NoTree
    /\ multiProof = NoMultiProof
    /\ \E data \in Requests :
         LET r == GenerateMultiProof(tree, data)
         IN /\ multiProof' = r.proof
            /\ multiArgs' = IF r.err = ""
                            THEN [data |-> data, altered |-> {}, verified |-> 0]
                            ELSE NoMultiArgs
            /\ call' = Call("GenerateMultiProof", data, FALSE, FALSE, 0, "none")
            /\ ret' = Ret(r.err, FALSE)
    /\ UNCHANGED <<ptree, history, tree, proof, proofArgs, pollard, tree2, exported, imported, overwritten>>

\* Some of the hashes a freshly generated multiproof carries are replaced
\* by other digests.
TamperMultiProof ==
    /\ multiProof # NoMultiProof
    /\ multiArgs.altered = {}
    /\ multiArgs.verified = 0
    /\ \E keys \in (SUBSET DOMAIN multiProof.Hashes) \ {{}} :
         \E repl \in [keys -> TamperSet] :
            /\ \A k \in keys : repl[k] # multiProof.Hashes[k]
            /\ multiProof' = [multiProof EXCEPT !.Hashes =
                                [k \in DOMAIN multiProof.Hashes |->
                                    IF k \in keys THEN repl[k] ELSE multiProof.Hashes[k]]]
            /\ multiArgs' = [multiArgs EXCEPT !.altered = keys]
            /\ call' = Call("TamperMultiProof", <<>>, FALSE, FALSE, 0, "none")
            /\ ret' = Ret("", FALSE)
    /\ UNCHANGED <<ptree, history, tree, proof, proofArgs, pollard, tree2, exported, imported, overwritten>>

\* proven, err := VerifyMultiProofUsing(data, salt, multiProof, tree.Root(),
\* hashType), with the tree's salt flag and the values the proof was
\* generated for.  The call writes into the proof's hash map.
VerifyMultiProofCall ==
    /\ tree # NoTree
    /\ multiProof # NoMultiProof
    /\ multiArgs.verified = 0
    /\ \E data \in {multiArgs.data} :
         LET r == VerifyMultiProofUsing(data, tree.Salt, multiProof, Root(tree))
         IN /\ multiProof' = [multiProof EXCEPT !.Hashes = r.hashes]
            /\ multiArgs' = [multiArgs EXCEPT !.verified = 1]
            /\ call' = Call("VerifyMultiProof", data, tree.Salt, FALSE, 0, "none")
            /\ ret' = Ret(r.err, r.proven)
    /\ UNCHANGED <<ptree, history, tree, proof, proofArgs, pollard, tree2, exported, imported, overwritten>>

\* A further VerifyMultiProofUsing on the MultiProof object an earlier call
\* was given, with any values in the place of the proven ones.
VerifyMultiProofAgainCall ==
    /\ tree # NoTree
    /\ multiProof # NoMultiProof
    /\ multiArgs.altered = {}
    /\ multiArgs.verified = 1
    /\ \E data \in {d \in Requests : Len(d) = Len(multiArgs.data)} :
         LET r == VerifyMultiProofUsing(data, tree.Salt, multiProof, Root(tree))
         IN /\ multiProof' = [multiProof EXCEPT !.Hashes = r.hashes]
            /\ multiArgs' = [multiArgs EXCEPT !.verified = 2]
            /\ call' = Call("VerifyMultiProofAgain", data, tree.Salt, FALSE, 0, "none")
            /\ ret' = Ret(r.err, r.proven)
    /\ UNCHANGED <<ptree, history, tree, proof, proofArgs, pollard, tree2, exported, imported, overwritten>>

\* The caller removes one of the hashes of a generated MultiProof, whose
\* fields are exported.
DropMultiProofHash ==
    /\ multiProof # NoMultiProof
    /\ multiArgs.altered = {}
    /\ multiArgs.verified = 0
    /\ \E k \in DOMAIN multiProof.Hashes :
         /\ multiProof' = [multiProof EXCEPT !.Hashes = MapDelete(multiProof.Hashes, k)]
         /\ multiArgs' = [multiArgs EXCEPT !.altered = {k}]
         /\ call' = Call("DropMultiProofHash", <<>>, FALSE, FALSE, 0, "none")
         /\ ret' = Ret("", FALSE)
    /\ UNCHANGED <<ptree, history, tree, proof, proofArgs, pollard, tree2, exported, imported, overwritten>>

\* The values a caller puts in the Values field of a MultiProof.
ForgedValues == 0..1

\* The caller sets the Values field of a generated MultiProof; index 0
\* of altered stands for that field, no hash having the key 0.
SetMultiProofValues ==
    /\ multiProof # NoMultiProof
    /\ multiArgs.altered = {}
    /\ multiArgs.verified = 0
    /\ \E v \in ForgedValues \ {multiProof.Values} :
         /\ multiProof' = [multiProof EXCEPT !.Values = v]
         /\ multiArgs' = [multiArgs EXCEPT !.altered = {0}]
         /\ call' = Call("SetMultiProofValues", <<>>, FALSE, FALSE, 0, "none")
         /\ ret' = Ret("", FALSE)
    /\ UNCHANGED <<ptree, history, tree, proof, proofArgs, pollard, tree2, exported, imported, overwritten>>

\* The root arguments of a verification: the tree's root, a nil slice and
\* another digest.
rootArgument(t, name) ==
    IF name = "root" THEN Root(t)
    ELSE IF name = "nilroot" THEN Nil
    ELSE BadHash

\* proven, err := VerifyMultiProofUsing(data, salt, multiProof, root,
\* hashType) with any values, as many or not as the proof has indices, and
\* any root argument.
VerifyMultiProofAnyCall ==
    /\ tree # NoTree
    /\ multiProof # NoMultiProof
    /\ multiArgs.verified = 0
    /\ \E data \in Requests, name \in {"root", "nilroot", "badroot"} :
         LET r == VerifyMultiProofUsing(data, tree.Salt, multiProof,
                                        rootArgument(tree, name))
         IN /\ multiProof' = [multiProof EXCEPT !.Hashes = r.hashes]
            /\ multiArgs' = [multiArgs EXCEPT !.verified = 1]
            /\ call' = Call("VerifyMultiProofAny", data, tree.Salt, FALSE, 0, name)
            /\ ret' = Ret(r.err, r.proven)
    /\ UNCHANGED <<ptree, history, tree, proof, proofArgs, pollard, tree2, exported, imported, overwritten>>

\* ptree, err := NewUsing(nodeData, hash).
NewUsingCall ==
    /\ ptree = NoPointerTree
    /\ \E nodeData \in ValueLists :
         LET r == NewUsing(nodeData)
         IN /\ ptree' = r.tree
            /\ history' = IF r.err = ""
                           THEN [log |-> <<>>, data |-> <<nodeData>>,
                                 roots |-> <<RootHash(r.tree)>>]
                           ELSE NoHistory
            /\ call' = Call("NewUsing", nodeData, FALSE, FALSE, 0, "none")
            /\ ret' = Ret(r.err, FALSE)
    /\ UNCHANGED <<tree, proof, proofArgs, pollard, multiProof, multiArgs,
                   tree2, exported, imported, overwritten>>

\* err := ptree.Replace(old, new).
ReplaceCall ==
    /\ ptree # NoPointerTree
    /\ Len(history.log) < MaxReplace
    /\ \E old \in ValueSet, new \in ValueSet :
         LET r == Replace(ptree, old, new)
         IN /\ ptree' = r.tree
            /\ history' = IF r.err = ""
                           THEN [log |-> Append(history.log, <<old, new>>),
                                 data |-> Append(history.data, leafData(r.tree)),
                                 roots |-> Append(history.roots, RootHash(r.tree))]
                           ELSE history
            /\ call' = Call("Replace", <<old, new>>, FALSE, FALSE, 0, "none")
            /\ ret' = Ret(r.err, FALSE)
    /\ UNCHANGED <<tree, proof, proofArgs, pollard, multiProof, multiArgs,
                   tree2, exported, imported, overwritten>>

\* exported, err := json.Marshal(tree), for a tree whose hash provider
\* answers hashName to HashName().
MarshalJSONCall ==
    /\ tree # NoTree
    /\ exported = NoExport
    /\ \E hashName \in HashNames :
         /\ exported' = MarshalJSON(tree, hashName)
         /\ call' = Call("MarshalJSON", <<>>, FALSE, FALSE, 0, hashName)
         /\ ret' = Ret("", FALSE)
    /\ UNCHANGED <<ptree, history, tree, proof, proofArgs, pollard, multiProof, multiArgs,
                   tree2, imported, overwritten>>

\* err := json.Unmarshal(exported, &imported), into a tree object that has
\* received nothing yet.
UnmarshalJSONCall ==
    /\ exported # NoExport
    /\ imported = NoTree
    /\ LET r == UnmarshalJSON(imported, exported)
       IN /\ imported' = r.tree
          /\ call' = Call("UnmarshalJSON", <<>>, FALSE, FALSE, 0, exported.HashType)
          /\ ret' = Ret(r.err, FALSE)
    /\ UNCHANGED <<ptree, history, tree, proof, proofArgs, pollard, multiProof, multiArgs,
                   tree2, exported, overwritten>>

\* Every operation.
Next ==
    \/ NewTreeCall
    \/ NewTreeAgainCall
    \/ GenerateProofCall
    \/ PollardCall
    \/ VerifyPollardCall
    \/ TamperProof
    \/ VerifyProofCall
    \/ GenerateMultiProofCall
    \/ TamperMultiProof
    \/ VerifyMultiProofCall
    \/ VerifyMultiProofAgainCall
    \/ OverwriteProofHash
    \/ OverwritePollardEntry
    \/ OverwriteMultiProofHash
    \/ MarshalJSONCall
    \/ UnmarshalJSONCall
    \/ DropMultiProofHash
    \/ SetMultiProofValues
    \/ VerifyMultiProofAnyCall
    \/ NewUsingCall
    \/ ReplaceCall
    \/ SetProofIndex

Spec == Init /\ [][Next]_vars

\* Construction alone.
NextTree == NewTreeCall

SpecTree == Init /\ [][NextTree]_vars

\* Construction, twice from one list.
NextRebuild ==
    \/ NewTreeCall
    \/ NewTreeAgainCall

SpecRebuild == Init /\ [][NextRebuild]_vars

\* Construction, the objects a tree returns, and their bytes overwritten.
NextAlias ==
    \/ NewTreeCall
    \/ GenerateProofCall
    \/ PollardCall
    \/ GenerateMultiProofCall
    \/ OverwriteProofHash
    \/ OverwritePollardEntry
    \/ OverwriteMultiProofHash

SpecAlias == Init /\ [][NextAlias]_vars

\* Construction and a multiproof that is verified more than once.
NextReuse ==
    \/ NewTreeCall
    \/ GenerateMultiProofCall
    \/ VerifyMultiProofCall
    \/ VerifyMultiProofAgainCall

SpecReuse == Init /\ [][NextReuse]_vars

\* Construction and pollards.
NextPollard ==
    \/ NewTreeCall
    \/ PollardCall
    \/ VerifyPollardCall

SpecPollard == Init /\ [][NextPollard]_vars

\* Construction, export and import.
NextImport ==
    \/ NewTreeCall
    \/ MarshalJSONCall
    \/ UnmarshalJSONCall

SpecImport == Init /\ [][NextImport]_vars

\* Construction and the generation of one proof, of either kind.
NextIndex ==
    \/ NewTreeCall
    \/ (multiProof = NoMultiProof /\ GenerateProofCall)
    \/ (proof = NoProof /\ GenerateMultiProofCall)

SpecIndex == Init /\ [][NextIndex]_vars

\* Construction and single proofs.
NextProof ==
    \/ NewTreeCall
    \/ GenerateProofCall
    \/ PollardCall
    \/ TamperProof
    \/ VerifyProofCall

SpecProof == Init /\ [][NextProof]_vars

\* Construction and multiproofs.
NextMulti ==
    \/ NewTreeCall
    \/ GenerateMultiProofCall
    \/ TamperMultiProof
    \/ VerifyMultiProofCall

SpecMulti == Init /\ [][NextMulti]_vars

\* Construction, single proofs whose Index the caller has changed, and
\* their verification.
NextPosition ==
    \/ NewTreeCall
    \/ GenerateProofCall
    \/ PollardCall
    \/ SetProofIndex
    \/ VerifyProofCall

SpecPosition == Init /\ [][NextPosition]_vars

\* The pointer tree: construction and replacement of leaves.
NextPointer ==
    \/ NewUsingCall
    \/ ReplaceCall

SpecPointer == Init /\ [][NextPointer]_vars

\* Construction, multiproofs whose fields the caller has altered, and
\* their verification with any values and any root argument.
NextMalformed ==
    \/ NewTreeCall
    \/ GenerateMultiProofCall
    \/ DropMultiProofHash
    \/ SetMultiProofValues
    \/ VerifyMultiProofAnyCall

SpecMalformed == Init /\ [][NextMalformed]_vars

----------------------------------------------------------------------------
(* Properties.                                                             *)

\* Whether value occurs in the data of tree t.
InData(t, value) == \E i \in 1..Len(t.Data) : t.Data[i] = value

\* The last call verified the value the unaltered proof was generated for.
VerifiedOwnValue ==
    /\ call.op = "VerifyProof"
    /\ proof # NoProof
    /\ call.data = <<proofArgs.data>>

\* C1: round-trip membership. For every tree built by NewTree from a
\* non-empty list, whatever its salted and sorted flags, and every value v
\* of its data, VerifyProof(v, salted, GenerateProof(v, 0), [Root()]) is true.
C1_RoundTrip ==
    (/\ VerifiedOwnValue
     /\ proofArgs.altered = {}
     /\ proofArgs.height = 0
     /\ pollard = <<Root(tree)>>)
    => ret.proven

\* C2: multiproof correctness. For every tree (any salted/sorted flags) and
\* every non-empty list S of values of its data, the multiproof generated
\* for S, verified with S in the same order against Root(), is true.
C2_MultiProofVerifies ==
    (/\ call.op = "VerifyMultiProof"
     /\ multiArgs.altered = {}
     /\ call.data = multiArgs.data)
    => (ret.err = "" /\ ret.proven)

\* C3: pollard equivalence. For every tree with padded leaf count N, every
\* height h with 2^(h+1) <= 2N and every value v of the data,
\* VerifyProof(v, salted, GenerateProof(v, h), Pollard(h)) is true.
C3_PollardEquivalence ==
    (/\ VerifiedOwnValue
     /\ proofArgs.altered = {}
     /\ Exp2(proofArgs.height + 1) <= 2 * LeafCount(tree)
     /\ pollard = Pollard(tree, proofArgs.height))
    => ret.proven

\* C4: tamper detection. For every generated proof with at least one hash,
\* replacing one of its hashes by a different digest makes VerifyProof of
\* the proven value against the tree's root return false.
C4_TamperDetected ==
    (/\ VerifiedOwnValue
     /\ proofArgs.altered # {}
     /\ pollard = <<Root(tree)>>)
    => ~ret.proven

\* C4 witness: a proof of two hashes whose second hash was replaced has been
\* verified against the root.
C4_Witness ==
    /\ VerifiedOwnValue
    /\ proofArgs.altered = {2}
    /\ proofArgs.height = 0
    /\ pollard = <<Root(tree)>>
    /\ ~tree.Sorted
    /\ ~ret.proven

\* C5: wrong value rejected. For every value v of a tree and every value w
\* different from v, VerifyProof(w, salted, GenerateProof(v, 0), [Root()])
\* is false.
C5_WrongValueRejected ==
    (/\ call.op = "VerifyProof"
     /\ proof # NoProof
     /\ proofArgs.altered = {}
     /\ proofArgs.height = 0
     /\ call.data # <<proofArgs.data>>
     /\ pollard = <<Root(tree)>>)
    => ~ret.proven

\* C5 witness: a value of the tree other than the proven one has been
\* verified against an unaltered proof and rejected.
C5_Witness ==
    /\ call.op = "VerifyProof"
    /\ proof # NoProof
    /\ proofArgs.altered = {}
    /\ proofArgs.height = 0
    /\ call.data # <<proofArgs.data>>
    /\ InData(tree, call.data[1])
    /\ pollard = <<Root(tree)>>
    /\ ~tree.Sorted
    /\ Len(tree.Data) = 3
    /\ ~ret.proven

C7_FailsOnlyOnEmpty ==
    call.op = "NewTree" => (ret.err # "" <=> Len(call.data) = 0)

\* C7 as amended: construction fails, with an error and no tree, if and only
\* if the value list is empty, the hash type is nil, or a parameter that
\* only a multiproof uses (values, hashes, indices) is supplied; every other
\* call yields a tree.
C7_FailsOnBadParameters ==
    call.op = "NewTree" =>
        /\ (ret.err # "" <=> (Len(call.data) = 0 \/ call.opt # "none"))
        /\ (ret.err # "" <=> tree = NoTree)

\* C7 witness: a one-value list with no other option has been built.
C7_Witness ==
    /\ call.op = "NewTree"
    /\ Len(call.data) = 1
    /\ call.opt = "none"
    /\ ret.err = ""
    /\ tree # NoTree

\* C8: GenerateProof returns the error "data not found" and no Proof exactly
\* when the value equals no element of the tree's data, and the failed call
\* leaves the tree's data and nodes unchanged.
C8_DataNotFound ==
    [][call'.op = "GenerateProof" =>
          /\ ((ret'.err = "data not found" /\ proof' = NoProof)
                <=> ~InData(tree, call'.data[1]))
          /\ (ret'.err = "data not found" => tree' = tree)]_vars

\* C8 witness: a proof was requested for a value absent from a tree of
\* three values, and refused.
C8_Witness ==
    /\ call.op = "GenerateProof"
    /\ Len(tree.Data) = 3
    /\ ~InData(tree, call.data[1])
    /\ ret.err = "data not found"
    /\ proof = NoProof

\* C9: GenerateMultiProof fails with "data not found" whenever at least one
\* requested value is absent from the tree's data, wherever it stands in
\* the request, and returns no MultiProof.
C9_MultiDataNotFound ==
    (/\ call.op = "GenerateMultiProof"
     /\ \E n \in 1..Len(call.data) : ~InData(tree, call.data[n]))
    => (ret.err = "data not found" /\ multiProof = NoMultiProof)

\* C9 witness: a request whose first value is in the tree and whose second
\* value is not has been refused.
C9_Witness ==
    /\ call.op = "GenerateMultiProof"
    /\ Len(call.data) = 2
    /\ InData(tree, call.data[1])
    /\ ~InData(tree, call.data[2])
    /\ ret.err = "data not found"
    /\ multiProof = NoMultiProof

\* C10: shape. Every tree NewTree returns has a node array of length 2N, N
\* the smallest power of two >= len(data), and every leaf slot N+i with
\* len(data) <= i < N holds the all-zero digest.
C10_Shape ==
    tree # NoTree =>
        \E k \in 0..Len(tree.Data) :
            LET N == Exp2(k)
            IN /\ N >= Len(tree.Data)
               /\ (k > 0 => Exp2(k - 1) < Len(tree.Data))
               /\ DOMAIN tree.Nodes = 0..(2 * N - 1)
               /\ \A i \in Len(tree.Data)..(N - 1) : tree.Nodes[N + i] = ZeroHash

\* C10 witness: a tree of three values, whose fourth leaf is padding.
C10_Witness ==
    /\ tree # NoTree
    /\ Len(tree.Data) = 3
    /\ DOMAIN tree.Nodes = 0..7

\* C11: leaf rule. In every tree NewTree returns, for every flag combination
\* and every position i < len(data) of the tree's data, node N+i is
\* hash(data[i]) when the tree is unsalted and hash(data[i], be32(i)) when
\* it is salted.
C11_LeafRule ==
    tree # NoTree =>
        \A i \in 0..(Len(tree.Data) - 1) :
            tree.Nodes[LeafCount(tree) + i] =
                IF tree.Salt THEN Hash(<<tree.Data[i + 1], BE32(i)>>)
                             ELSE Hash(<<tree.Data[i + 1]>>)

\* C12: branch rule. In every tree NewTree returns, every internal node i,
\* 1 <= i < N, is hash(node 2i, node 2i+1) in child order when the tree is
\* unsorted, and the hash of the two children with the smaller digest first
\* when it is sorted, at every level.
C12_BranchRule ==
    tree # NoTree =>
        \A i \in 1..(LeafCount(tree) - 1) :
            LET left == tree.Nodes[2 * i]
                right == tree.Nodes[2 * i + 1]
            IN tree.Nodes[i] =
                   IF tree.Sorted /\ Compare(right, left) = 0 - 1
                   THEN Hash(<<right, left>>)
                   ELSE Hash(<<left, right>>)

\* C12 witness: a sorted tree of three values whose root hashes its right
\* child first, because that child is the smaller digest.
C12_Witness ==
    /\ tree # NoTree
    /\ tree.Sorted
    /\ Len(tree.Data) = 3
    /\ Compare(tree.Nodes[3], tree.Nodes[2]) = 0 - 1
    /\ tree.Nodes[1] = Hash(<<tree.Nodes[3], tree.Nodes[2]>>)

\* C13: determinism. Building two trees one after the other from the same
\* value list with the same salted flag, sorted flag and hash provider
\* yields identical node arrays and identical roots.
C13_Determinism ==
    (/\ call.op = "NewTreeAgain"
     /\ ret.err = ""
     /\ call.salt = tree.Salt
     /\ call.sorted = tree.Sorted)
    => (tree2.Nodes = tree.Nodes /\ Root(tree2) = Root(tree))

\* C14: data order. The data a built tree holds is the caller's value list
\* in its original insertion order, duplicates included, for every
\* combination of the salted and sorted flags.
C14_DataOrder ==
    (call.op = "NewTree" /\ ret.err = "") => tree.Data = call.data

\* C15: padding, not duplication. For every value list whose length is not
\* a power of two, the missing leaves are zero digests and the root differs
\* from the root of the tree built from the same list with its last value
\* repeated to fill the padding.
C15_PaddingNotDuplication ==
    (/\ call.op = "NewTree"
     /\ ret.err = ""
     /\ Len(call.data) < LeafCount(tree))
    => /\ \A i \in Len(call.data)..(LeafCount(tree) - 1) :
              tree.Nodes[LeafCount(tree) + i] = ZeroHash
       /\ Root(tree) # Root(buildTree(repeatLast(call.data, LeafCount(tree)),
                                      call.salt, call.sorted))

\* C15 witness: a tree of three values, padded to four leaves, has been
\* built, and its fourth leaf is the zero digest.
C15_Witness ==
    /\ call.op = "NewTree"
    /\ ret.err = ""
    /\ Len(call.data) = 3
    /\ LeafCount(tree) = 4
    /\ tree.Nodes[7] = ZeroHash

\* The sum of the hash counts of the height-0 single proofs of data[n..].
RECURSIVE singleProofHashes(_, _, _)
singleProofHashes(t, data, n) ==
    IF n > Len(data) THEN 0
    ELSE Len(GenerateProof(t, data[n], 0).proof.Hashes)
         + singleProofHashes(t, data, n + 1)

\* C16: multiproof size. For every non-empty list of values present in the
\* tree, the number of hashes in the MultiProof is at most the sum of the
\* hash counts of the height-0 single proofs of those values, and strictly
\* smaller whenever at least two different leaves are proven.
C16_MultiProofSize ==
    (/\ call.op = "GenerateMultiProof"
     /\ ret.err = ""
     /\ Len(call.data) > 0)
    => LET m == Cardinality(DOMAIN multiProof.Hashes)
           sum == singleProofHashes(tree, call.data, 1)
       IN /\ m <= sum
          /\ (\E a, b \in 1..Len(multiProof.Indices) :
                  multiProof.Indices[a] # multiProof.Indices[b])
             => m < sum

\* C16 witness: two different leaves of a tree of three values have been
\* proven by a multiproof that carries two hashes, where the two single
\* proofs carry four.
C16_Witness ==
    /\ call.op = "GenerateMultiProof"
    /\ ret.err = ""
    /\ Len(tree.Data) = 3
    /\ Len(multiProof.Indices) = 2
    /\ multiProof.Indices[1] # multiProof.Indices[2]
    /\ Cardinality(DOMAIN multiProof.Hashes) = 2
    /\ singleProofHashes(tree, call.data, 1) = 4

\* C17: returned values are independent copies. Overwriting in place the
\* digest bytes of a Proof, of a MultiProof or of a pollard returned by a
\* tree leaves every entry of the tree's node array, and its root, unchanged.
C17_IndependentCopies ==
    [][call'.op \in {"OverwriteProof", "OverwritePollard", "OverwriteMultiProof"}
          => tree'.Nodes = tree.Nodes]_vars

\* C18: verification is pure. In every sequence of multiproof verification
\* calls on the same MultiProof object, each call returns what it would
\* return on a freshly generated copy of the proof; a call with values that
\* are not the proven ones returns false even after an earlier call with
\* the right values returned true.
C18_VerificationPure ==
    call.op = "VerifyMultiProofAgain" =>
        ret.proven = VerifyMultiProofUsing(call.data, tree.Salt,
                         GenerateMultiProof(tree, multiArgs.data).proof,
                         Root(tree)).proven

\* C19: for every tree NewTree builds and every height h below the tree's
\* depth, VerifyPollard(Pollard(h)) returns true; a pollard of length 1 is
\* always accepted.
C19_PollardVerifies ==
    (/\ call.op = "VerifyPollard"
     /\ (Len(pollard) + 1 <= LeafCount(tree) \/ Len(pollard) = 1))
    => ret.proven

\* C20: a failed import leaves nothing behind. When importing a persisted
\* tree fails because the hash provider name is not recognised, the call
\* returns an error and the receiving tree object is unchanged: none of its
\* salt, sorted, data and nodes fields has been overwritten.
C20_FailedImportLeavesNothing ==
    [][(call'.op = "UnmarshalJSON" /\ exported.HashType \notin KnownHashNames)
          => (ret'.err # "" /\ imported' = imported)]_vars

\* C21: Pollard(h) returns exactly the nodes at indices 1 .. 2^(h+1)-1 in
\* index order: it has 2^(h+1)-1 entries, its last 2^h entries are the
\* nodes of depth h, and Pollard(0) is the one-element sequence holding the
\* root.  (A height whose slice would pass the end of the node array makes
\* the call panic and return nothing.)
C21_PollardContents ==
    (call.op = "Pollard" /\ ret.err = "") =>
        LET h == call.height
        IN /\ Len(pollard) = Exp2(h + 1) - 1
           /\ \A i \in 1..Len(pollard) : pollard[i] = tree.Nodes[i]
           /\ \A j \in 0..(Exp2(h) - 1) :
                  pollard[Len(pollard) - Exp2(h) + 1 + j] = tree.Nodes[Exp2(h) + j]
           /\ (h = 0 => pollard = <<Root(tree)>>)

\* C21 witness: the pollard of height 1 of a tree with four leaves has been
\* taken: three entries, the last two being nodes 2 and 3.
C21_Witness ==
    /\ call.op = "Pollard"
    /\ ret.err = ""
    /\ call.height = 1
    /\ LeafCount(tree) = 4
    /\ Len(pollard) = 3
    /\ pollard[2] = tree.Nodes[2]
    /\ pollard[3] = tree.Nodes[3]

firstPosition(t, value) ==
    CHOOSE i \in 0..(Len(t.Data) - 1) :
        /\ t.Data[i + 1] = value
        /\ \A j \in 0..(i - 1) : t.Data[j + 1] # value

\* C23: when a value occurs several times in the tree's data, GenerateProof
\* and GenerateMultiProof use the smallest position at which it occurs: the
\* returned index is min{ i : data[i] = value }.
C23_FirstOccurrence ==
    /\ (call.op = "GenerateProof" /\ ret.err = "")
          => proof.Index = firstPosition(tree, call.data[1])
    /\ (call.op = "GenerateMultiProof" /\ ret.err = "")
          => /\ Len(multiProof.Indices) = Len(call.data)
             /\ \A n \in 1..Len(call.data) :
                    multiProof.Indices[n] = firstPosition(tree, call.data[n])

\* C23 witness: a proof was generated for a value that stands at the second
\* and third positions of the data, and carries the second position.
C23_Witness ==
    /\ call.op = "GenerateProof"
    /\ ret.err = ""
    /\ Len(tree.Data) = 3
    /\ tree.Data[2] = call.data[1]
    /\ tree.Data[3] = call.data[1]
    /\ tree.Data[1] # call.data[1]
    /\ proof.Index = 1

\* The node indices greater than 1 on the path from node i to the root.
RECURSIVE pathAbove(_)
pathAbove(i) == IF i > 1 THEN {i} \cup pathAbove(i \div 2) ELSE {}

\* C24: pruned hash set. Let P be the set of node indices greater than 1 on
\* the path from any proven leaf to the root. The MultiProof's hash map has
\* exactly the keys k with k not in P and (k xor 1) in P, each mapped to the
\* tree's node k; no key is a proven leaf or an ancestor of one.
C24_PrunedHashSet ==
    (call.op = "GenerateMultiProof" /\ ret.err = "") =>
        LET N == LeafCount(tree)
            P == UNION {pathAbove(multiProof.Indices[n] + N) :
                            n \in 1..Len(multiProof.Indices)}
        IN /\ DOMAIN multiProof.Hashes =
                  {k \in 2..(2 * N - 1) : k \notin P /\ Xor1(k) \in P}
           /\ \A k \in DOMAIN multiProof.Hashes :
                  /\ multiProof.Hashes[k] = tree.Nodes[k]
                  /\ k \notin P
                  /\ k # 1

\* C24 witness: the first and third leaves of a tree with four leaves are
\* proven by a multiproof whose hashes are exactly those of nodes 5 and 7.
C24_Witness ==
    /\ call.op = "GenerateMultiProof"
    /\ ret.err = ""
    /\ LeafCount(tree) = 4
    /\ multiProof.Indices = <<0, 2>>
    /\ DOMAIN multiProof.Hashes = {5, 7}

\* C25 as claimed: the list of proven leaf indices carried by a MultiProof
\* is in ascending order, whatever the order in which the values were
\* requested; it carries Values = N, the padded leaf count of the tree.
C25_IndicesAscending ==
    (call.op = "GenerateMultiProof" /\ ret.err = "") =>
        /\ \A a, b \in 1..Len(multiProof.Indices) :
               a < b => multiProof.Indices[a] <= multiProof.Indices[b]
        /\ multiProof.Values = LeafCount(tree)

\* C25 as amended: the list of proven leaf indices carried by a MultiProof
\* is in the order of the request: its n-th entry is the position of the
\* n-th requested value, so the values verify in the order they were
\* requested in; it carries Values = N, the padded leaf count of the tree.
C25_IndicesInRequestOrder ==
    (call.op = "GenerateMultiProof" /\ ret.err = "") =>
        /\ Len(multiProof.Indices) = Len(call.data)
        /\ \A n \in 1..Len(call.data) :
               /\ multiProof.Indices[n] \in 0..(Len(tree.Data) - 1)
               /\ tree.Data[multiProof.Indices[n] + 1] = call.data[n]
        /\ multiProof.Values = LeafCount(tree)

\* C25 witness: two values were requested, the one at the second position
\* first, and the MultiProof carries the indices 1, 0.
C25_Witness ==
    /\ call.op = "GenerateMultiProof"
    /\ ret.err = ""
    /\ Len(call.data) = 2
    /\ multiProof.Indices = <<1, 0>>
    /\ multiProof.Values = LeafCount(tree)

\* C26: multiproof verification makes one pass over the internal indices
\* Values-1, Values-2, ..., 1, in descending order and each index once; the
\* pass ends after exactly Values-1 iterations, as many as there are
\* indices in 1..Values-1, for every MultiProof.
C26_OneDescendingPass ==
    (call.op = "VerifyMultiProofAny" /\ ret.err # "panic") =>
        /\ passStart(multiProof.Values) = Uint64(Cardinality(1..(multiProof.Values - 1)))
        /\ ret.err # "hang"

\* C27: when no digest is present at node index 1 after the descending
\* pass, verification returns false and no error, for every root argument.
C27_MissingTopIsFalse ==
    (/\ call.op = "VerifyMultiProofAny"
     /\ ret.err \notin {"panic", "hang"}
     /\ 1 \notin DOMAIN multiProof.Hashes) =>
        (ret.err = "" /\ ret.proven = FALSE)

\* C29: multiproof verification returns false, without failing, whenever
\* the number of supplied values differs from the number of proven indices;
\* values beyond the proven indices are never ignored.
C29_CountMismatchIsFalse ==
    (call.op = "VerifyMultiProofAny" /\ Len(call.data) # Len(multiProof.Indices)) =>
        (ret.err = "" /\ ret.proven = FALSE)

\* Every leaf of t carries the hash of its data and every branch the hash
\* of its two children's hashes.
hashesAccurate(t) ==
    \A i \in 1..Len(t.nodes) :
        LET n == t.nodes[i]
        IN IF IsLeaf(n) THEN n.hash = Hash(<<n.data>>)
           ELSE n.hash = Hash(<<t.nodes[n.left].hash, t.nodes[n.right].hash>>)

\* The first place of value in data, 0 when it is nowhere.
firstLeaf(data, value) ==
    IF \E i \in 1..Len(data) : data[i] = value
    THEN CHOOSE i \in 1..Len(data) :
            data[i] = value /\ \A j \in 1..(i - 1) : data[j] # value
    ELSE 0

\* C28 as claimed: after any sequence of successful Replace calls on the
\* pointer tree every branch hash is the hash of its two children's hashes
\* and RootHash() is the root hash of a tree newly built from the current
\* leaf values; Replace(a, b) followed by Replace(b, a) restores the
\* original root hash.
C28_ReplaceRestores ==
    ptree # NoPointerTree =>
        /\ hashesAccurate(ptree)
        /\ RootHash(ptree) = RootHash(NewUsing(leafData(ptree)).tree)
        /\ \A k \in 1..(Len(history.log) - 1) :
               (history.log[k + 1] = <<history.log[k][2], history.log[k][1]>>)
                   => history.roots[k + 2] = history.roots[k]

\* C28 as amended: after any sequence of successful Replace calls on the
\* pointer tree every branch hash is the hash of its two children's hashes
\* and RootHash() is the root hash of a tree newly built from the current
\* leaf values; Replace(a, b) followed by Replace(b, a) restores the
\* original root hash when no leaf before the first leaf holding a holds
\* b, Replace changing the first leaf that holds its old value.
C28_ReplaceKeepsHashes ==
    ptree # NoPointerTree =>
        /\ hashesAccurate(ptree)
        /\ RootHash(ptree) = RootHash(NewUsing(leafData(ptree)).tree)
        /\ \A k \in 1..(Len(history.log) - 1) :
               LET a == history.log[k][1]
                   b == history.log[k][2]
                   before == history.data[k]
               IN (/\ history.log[k + 1] = <<b, a>>
                   /\ \A j \in 1..(firstLeaf(before, a) - 1) : before[j] # b)
                      => history.roots[k + 2] = history.roots[k]

\* C28 witness: a tree of three leaves, the last paired with itself, had a
\* value replaced by another and then that one by the first, and its root
\* hash is the one it had, different from the one in between.
C28_Witness ==
    /\ ptree # NoPointerTree
    /\ call.op = "Replace"
    /\ ret.err = ""
    /\ Len(history.data[1]) = 3
    /\ Len(history.log) = 2
    /\ history.log[1][1] # history.log[1][2]
    /\ history.log[2] = <<history.log[1][2], history.log[1][1]>>
    /\ history.roots[3] = history.roots[1]
    /\ history.roots[2] # history.roots[1]

\* C30: a proof is bound to its position: for every generated proof with at
\* least one hash, changing only its Index field to any other value makes
\* the verification of the same value against the tree's root return
\* false, in unsalted and salted trees and with duplicate values.
C30_BoundToPosition ==
    (/\ call.op = "VerifyProof"
     /\ proofArgs.altered = {0}
     /\ proofArgs.height = 0
     /\ Len(proof.Hashes) >= 1
     /\ pollard = <<Root(tree)>>
     /\ call.data = <<proofArgs.data>>) =>
        ret.proven = FALSE

====
